---------------------------- MODULE Spec2Model ----------------------------
(***************************************************************************)
(* RouteStops: the geospatial matching and ranking core.                   *)
(*                                                                         *)
(*   src/src/services/places/placesService.ts   PlacesService              *)
(*   src/src/services/api/tripAdvisorClient.ts  TripAdvisorClient          *)
(*                                                                         *)
(* One call of PlacesService.searchNearby is modelled as a state machine:  *)
(* the call validates its location, plans the coverage points and issues   *)
(* one places query per point; the queries settle in any order; once all   *)
(* have settled the features are aggregated into candidates and one        *)
(* ratings lookup per candidate is issued; the lookups settle in any       *)
(* order; once all have settled the enriched places are sorted and         *)
(* truncated.                                                              *)
(*                                                                         *)
(* Units.  Coordinates are integers in hundredths of a degree, ratings in  *)
(* tenths of a point, distances in hundredths of a mile before formatting  *)
(* and in tenths of a mile once formatted ("2.3 mi" is 23).  Texts that    *)
(* the code parses back (parseFloat) are modelled by what they start       *)
(* with: a decimal number, or something else.                              *)
(***************************************************************************)
EXTENDS Integers, Sequences, FiniteSets, TLC

(***************************************************************************)
(* JavaScript values.  Every value carries its type tag t, so that the     *)
(* truthiness tests of the code (a && b, a || b, !a, a ? b : c) can be     *)
(* modelled as the language defines them.                                  *)
(***************************************************************************)
Undef == [t |-> "undefined"]
Null == [t |-> "null"]
NaN == [t |-> "NaN"]
Num(v) == [t |-> "number", v |-> v]
\* A text that is not the text of a number ("", "NaN mi", "n/a", "a.example").
Str(s) == [t |-> "string", s |-> s]
\* The text of the decimal number v followed by unit ("4.5", "2.3 mi").
NumText(v, unit) == [t |-> "string", num |-> v, unit |-> unit]
\* An array of cuisine entries.
Arr(xs) == [t |-> "array", xs |-> xs]

\* ToBoolean: undefined, null, NaN, 0 and "" are falsy, all else is truthy.
Truthy(x) ==
    CASE x.t = "undefined" -> FALSE
      [] x.t = "null" -> FALSE
      [] x.t = "NaN" -> FALSE
      [] x.t = "number" -> x.v # 0
      [] x.t = "string" -> IF "s" \in DOMAIN x THEN x.s # "" ELSE TRUE
      [] OTHER -> TRUE

\* a || b
Or(a, b) == IF Truthy(a) THEN a ELSE b

\* parseFloat(x): the leading decimal number of a text, NaN when it has none.
ParseFloat(x) ==
    IF x.t = "string" /\ "num" \in DOMAIN x THEN Num(x.num) ELSE NaN

\* parseInt(x) of the text of a whole number, NaN when the text has no number.
ParseInt(x) ==
    IF x.t = "string" /\ "num" \in DOMAIN x THEN Num(x.num) ELSE NaN

\* x?.toString(): undefined and null stay undefined, a number becomes its text.
ToStringOpt(x) ==
    CASE x.t = "undefined" -> Undef
      [] x.t = "null" -> Undef
      [] x.t = "NaN" -> Str("NaN")
      [] x.t = "number" -> NumText(x.v, "")
      [] OTHER -> x

\* isNaN(x) of a number-typed value.
IsNaN(x) == x.t = "NaN"

(***************************************************************************)
(* Locations: {lat, lng}.  den is the common denominator of lat and lng:   *)
(* the projection of a point onto a segment has rational coordinates.      *)
(***************************************************************************)
Loc(lat, lng) == [t |-> "location", lat |-> Num(lat), lng |-> Num(lng), den |-> 1]
LocNaN == [t |-> "location", lat |-> NaN, lng |-> NaN, den |-> 1]


(***************************************************************************)
(* Geometry kernel (placesService.ts, lines 193-276).                      *)
(*                                                                         *)
(* The haversine formula is evaluated near latitude 40, where one          *)
(* hundredth of a degree of latitude is 0.69 mi and one hundredth of a     *)
(* degree of longitude is 0.53 mi (cos 40 = 0.766); over the few           *)
(* hundredths of a degree the model spans, the great-circle distance is    *)
(* the length of the chord in these units to within the resolution kept    *)
(* here, one hundredth of a mile.                                          *)
(***************************************************************************)
MilesPerLatStep == 69
MilesPerLngStep == 53

RECURSIVE ISqrtIn(_, _, _)
ISqrtIn(n, lo, hi) ==
    IF lo >= hi THEN lo
    ELSE LET mid == (lo + hi + 1) \div 2
         IN  IF mid * mid <= n THEN ISqrtIn(n, mid, hi) ELSE ISqrtIn(n, lo, mid - 1)

\* Math.sqrt, rounded down.
ISqrt(n) == ISqrtIn(n, 0, 30000)

LocIsNaN(p) == IsNaN(p.lat) \/ IsNaN(p.lng)

\* calculateHaversineDistance(point1, point2): miles, here in hundredths.
calculateHaversineDistance(point1, point2) ==
    IF LocIsNaN(point1) \/ LocIsNaN(point2) THEN NaN
    ELSE LET dLat == point2.lat.v * point1.den - point1.lat.v * point2.den
             dLon == point2.lng.v * point1.den - point1.lng.v * point2.den
             a == (MilesPerLatStep * dLat) * (MilesPerLatStep * dLat)
                  + (MilesPerLngStep * dLon) * (MilesPerLngStep * dLon)
         IN  Num(ISqrt(a) \div (point1.den * point2.den))

\* projectPointOnSegment(point, start, end): the three are locations with
\* integer coordinates; the result has the denominator len2.
projectPointOnSegment(point, start, end) ==
    IF LocIsNaN(start) \/ LocIsNaN(end) THEN LocNaN
    ELSE LET dx == end.lng.v - start.lng.v
             dy == end.lat.v - start.lat.v
             len2 == dx * dx + dy * dy
         IN  IF len2 = 0 THEN start
             ELSE IF LocIsNaN(point) THEN LocNaN
             ELSE LET n == (point.lng.v - start.lng.v) * dx
                           + (point.lat.v - start.lat.v) * dy
                      \* t = tn / len2, clamped to [0, 1]
                      tn == IF n < 0 THEN 0 ELSE IF n > len2 THEN len2 ELSE n
                  IN  [t |-> "location",
                       lat |-> Num(start.lat.v * len2 + tn * dy),
                       lng |-> Num(start.lng.v * len2 + tn * dx),
                       den |-> len2]

\* Number.prototype.toFixed(1) followed by " mi".
FormatMiles(d) ==
    IF IsNaN(d) THEN Str("NaN mi") ELSE NumText((d.v + 5) \div 10, " mi")

\* A slip: <= in place of <, the last of the closest segments is kept.
RECURSIVE ClosestScan_lastWins(_, _, _)
ClosestScan_lastWins(point, routeCoordinates, i) ==
    IF i < 2
    THEN [found |-> FALSE, minDistance |-> 0, closestSegmentIndex |-> 0,
          closestPoint |-> Null]
    ELSE LET prev == ClosestScan_lastWins(point, routeCoordinates, i - 1)
             projectedPoint == projectPointOnSegment(
                 point, routeCoordinates[i - 1], routeCoordinates[i])
             distanceToSegment == calculateHaversineDistance(point, projectedPoint)
         IN  IF ~IsNaN(distanceToSegment)
                /\ (~prev.found \/ distanceToSegment.v <= prev.minDistance)
             THEN [found |-> TRUE, minDistance |-> distanceToSegment.v,
                   closestSegmentIndex |-> i - 1,
                   closestPoint |-> projectedPoint]
             ELSE prev

\* The scan of lines 195-218: the state after segments 1..i have been looked
\* at.  found is FALSE while minDistance is still Infinity.
RECURSIVE ClosestScan(_, _, _)
ClosestScan(point, routeCoordinates, i) ==
    IF i < 2
    THEN [found |-> FALSE, minDistance |-> 0, closestSegmentIndex |-> 0,
          closestPoint |-> Null]
    ELSE LET prev == ClosestScan(point, routeCoordinates, i - 1)
             projectedPoint == projectPointOnSegment(
                 point, routeCoordinates[i - 1], routeCoordinates[i])
             distanceToSegment == calculateHaversineDistance(point, projectedPoint)
         IN  IF ~IsNaN(distanceToSegment)
                /\ (~prev.found \/ distanceToSegment.v < prev.minDistance)
             THEN [found |-> TRUE, minDistance |-> distanceToSegment.v,
                   \* the code's index is 0-based (i - 1); segment k here is
                   \* the one from vertex k to vertex k + 1, 1-based
                   closestSegmentIndex |-> i - 1,
                   closestPoint |-> projectedPoint]
             ELSE prev

\* total + x for numbers that may be NaN
AddNum(a, b) == IF IsNaN(a) \/ IsNaN(b) THEN NaN ELSE Num(a.v + b.v)

RECURSIVE SegmentsBefore(_, _)
\* lines 224-229: the lengths of the segments 1..k
SegmentsBefore(routeCoordinates, k) ==
    IF k = 0 THEN Num(0)
    ELSE AddNum(SegmentsBefore(routeCoordinates, k - 1),
                calculateHaversineDistance(routeCoordinates[k], routeCoordinates[k + 1]))

\* A slip: the loop of lines 224-229 is left out, only the partial length on
\* the closest segment is counted.
RouteMiles_partialOnly(point, routeCoordinates) ==
    LET scan == ClosestScan(point, routeCoordinates, Len(routeCoordinates))
    IN  IF ~scan.found THEN Num(0)
        ELSE calculateHaversineDistance(
                 routeCoordinates[scan.closestSegmentIndex], scan.closestPoint)

\* The distance along the route before toFixed: lines 195-237.
RouteMiles(point, routeCoordinates) ==
    LET scan == ClosestScan(point, routeCoordinates, Len(routeCoordinates))
    IN  IF ~scan.found THEN Num(0)
        ELSE AddNum(SegmentsBefore(routeCoordinates, scan.closestSegmentIndex - 1),
                    calculateHaversineDistance(
                        routeCoordinates[scan.closestSegmentIndex], scan.closestPoint))

calculateRouteDistance(point, routeCoordinates) ==
    FormatMiles(RouteMiles(point, routeCoordinates))

calculateDistanceFromOrigin(point, origin) ==
    FormatMiles(calculateHaversineDistance(point, origin))

(***************************************************************************)
(* Coverage planner (placesService.ts, lines 41-61).  Lengths in           *)
(* centimetres, so that radius * 1609.34 stays an integer.                 *)
(***************************************************************************)
CmPerMile == 160934
ProviderMaxCm == 500000
GridStep == 5

Min(a, b) == IF a < b THEN a ELSE b

radiusInMeters(radius) == radius * CmPerMile

\* A slip: the radius asked for is passed on without the provider's maximum.
baseRadius_unclamped(radius) == radiusInMeters(radius)

baseRadius(radius) == Min(radiusInMeters(radius), ProviderMaxCm)

\* Math.ceil(radiusInMeters / baseRadius), for positive lengths
gridSize(radius) ==
    (radiusInMeters(radius) + baseRadius(radius) - 1) \div baseRadius(radius)

\* location.lat + (i * latStep): NaN stays NaN
Offset(x, steps) == AddNum(x, Num(steps * GridStep))

\* A slip: the offset (0, 0) is not skipped, the origin is pushed twice.
SearchPointsOf_withCentre(location, radius) ==
    IF radiusInMeters(radius) > baseRadius(radius)
    THEN LET g == gridSize(radius)
             n == 2 * g + 1
         IN  <<location>> \o
             [k \in 1..(n * n) |->
                 [t |-> "location",
                  lat |-> Offset(location.lat, ((k - 1) \div n) - g),
                  lng |-> Offset(location.lng, ((k - 1) % n) - g),
                  den |-> 1]]
    ELSE <<location>>

\* searchPoints: the origin, then the grid in the order of the two loops.
SearchPointsOf(location, radius) ==
    IF radiusInMeters(radius) > baseRadius(radius)
    THEN LET g == gridSize(radius)
             n == 2 * g + 1
             centre == g * n + g
             cell(k) == IF k - 1 < centre THEN k - 1 ELSE k
         IN  <<location>> \o
             [k \in 1..(n * n - 1) |->
                 [t |-> "location",
                  lat |-> Offset(location.lat, (cell(k) \div n) - g),
                  lng |-> Offset(location.lng, (cell(k) % n) - g),
                  den |-> 1]]
    ELSE <<location>>

(***************************************************************************)
(* Category validator (lines 6-25) and the parameters of one places query  *)
(* (lines 64-72).                                                          *)
(***************************************************************************)
validCategories ==
    { "catering.restaurant", "catering.restaurant.pizza",
      "catering.restaurant.italian", "catering.restaurant.chinese",
      "catering.restaurant.sushi", "commercial.shopping_mall", "leisure.park",
      "tourism.attraction", "tourism.museum", "catering.cafe" }

\* A slip: the category is passed on as it came.
validateCategory_passthrough(category) == category

validateCategory(category) ==
    IF category \in validCategories THEN category ELSE "catering.restaurant"

\* The largest limit a places query asks for (line 68).
QueryLimitMax == 50

\* params of lines 64-72 for one coverage point; lengths in centimetres.
\* lang, conditions and fields are the same in every query and left out.
QueryParams(point, radius, limit, category) ==
    [categories |-> validateCategory(category),
     filter |-> [shape |-> "circle", lng |-> point.lng, lat |-> point.lat,
                 radius |-> baseRadius(radius)],
     bias |-> [lng |-> point.lng, lat |-> point.lat],
     limit |-> NumText(Min(limit, QueryLimitMax), "")]

(***************************************************************************)
(* Candidate aggregator and distance annotator (lines 83-127).             *)
(***************************************************************************)
\* The Restaurant object of lines 96-121.  A field the object does not have
\* reads as undefined.  address_line2, categories and businessStatus are
\* copied like address_line1 and are not carried by the model.
Restaurant(props, distance) ==
    [place_id |-> props.place_id,
     locationId |-> props.place_id,
     name |-> props.name,
     lat |-> props.lat,
     lon |-> props.lon,
     location |-> [t |-> "location", lat |-> props.lat, lng |-> props.lon, den |-> 1],
     address_line1 |-> props.address_line1,
     website |-> props.website,
     photos |-> Num(0),
     distance |-> distance,
     rating |-> Undef,
     reviews |-> Undef,
     priceLevel |-> Undef,
     phoneNumber |-> Undef,
     address |-> Undef,
     cuisine |-> Undef]

\* A slip: the polyline is used whenever one is supplied, whatever the mode.
DistanceOf_ignoresMode(props, originLocation, mode, route) ==
    LET point == [t |-> "location", lat |-> props.lat, lng |-> props.lon, den |-> 1]
    IN  IF Truthy(route)
        THEN calculateRouteDistance(point, route.coordinates)
        ELSE calculateDistanceFromOrigin(point, originLocation)

\* lines 112-120: mode === 'route' && route ? ... : ...
DistanceOf(props, originLocation, mode, route) ==
    LET point == [t |-> "location", lat |-> props.lat, lng |-> props.lon, den |-> 1]
    IN  IF mode = "route" /\ Truthy(route)
        THEN calculateRouteDistance(point, route.coordinates)
        ELSE calculateDistanceFromOrigin(point, originLocation)

\* A slip: the identifier is not looked up among the ones seen.
Accepted_noDedup(props, seenPlaceIds) ==
    /\ Truthy(props.name)
    /\ Truthy(props.lat)
    /\ Truthy(props.lon)

\* line 92: the features that become candidates
Accepted(props, seenPlaceIds) ==
    /\ Truthy(props.name)
    /\ Truthy(props.lat)
    /\ Truthy(props.lon)
    /\ props.place_id \notin seenPlaceIds

RECURSIVE Flatten(_)
\* the features of the responses, in the order the two loops visit them
Flatten(resps) ==
    IF resps = <<>> THEN <<>> ELSE Head(resps) \o Flatten(Tail(resps))

RECURSIVE AggregateFrom(_, _, _, _, _, _)
\* lines 84-127 over the features still to visit
AggregateFrom(features, seenPlaceIds, places, originLocation, mode, route) ==
    IF features = <<>> THEN places
    ELSE LET props == Head(features)
         IN  IF Accepted(props, seenPlaceIds)
             THEN AggregateFrom(Tail(features), seenPlaceIds \cup {props.place_id},
                      Append(places,
                             Restaurant(props, DistanceOf(props, originLocation, mode, route))),
                      originLocation, mode, route)
             ELSE AggregateFrom(Tail(features), seenPlaceIds, places,
                                originLocation, mode, route)

Aggregate(resps, originLocation, mode, route) ==
    AggregateFrom(Flatten(resps), {}, <<>>, originLocation, mode, route)

(***************************************************************************)
(* Enrichment (tripAdvisorClient.ts, lines 71-170; placesService.ts,       *)
(* lines 130-162).  A reply is what the fetch of one lookup comes to:      *)
(* kind "reject" (the fetch rejects), "httpError" (response.ok is false)   *)
(* or "json" (the parsed body).                                            *)
(***************************************************************************)
Obj(fields) == [t |-> "object"] @@ fields

\* makeRequest: the parsed body, or a throw
makeRequest(reply) ==
    IF reply.kind \in {"reject", "httpError"}
    THEN [threw |-> TRUE, value |-> Undef]
    ELSE [threw |-> FALSE, value |-> reply.body]

\* searchLocation: the response, or null (nothing found, or a caught throw)
searchLocation(reply) ==
    LET response == makeRequest(reply)
    IN  IF response.threw THEN Null
        ELSE IF ~Truthy(response.value) THEN Null
        ELSE response.value

\* details.cuisine?.map(c => ({ name: c.name })) throws on a value that is
\* neither nullish nor an array
CuisineMapThrows(details) ==
    details.cuisine.t \notin {"undefined", "null", "array"}

\* A slip: the provider's coordinates are written to lat and lon as well, and
\* the provider's identifier to place_id.
EnrichedRestaurant_providerCoordinates(restaurant, data) ==
    LET details == data.details
    IN  [restaurant EXCEPT
            !.place_id = data.location_id,
            !.locationId = data.location_id,
            !.lat = ParseFloat(Or(data.latitude, ToStringOpt(restaurant.lat))),
            !.lon = ParseFloat(Or(data.longitude, ToStringOpt(restaurant.lon))),
            !.rating = IF Truthy(details.rating) THEN ParseFloat(details.rating) ELSE Undef,
            !.reviews = IF Truthy(details.num_reviews)
                        THEN ParseInt(details.num_reviews) ELSE Undef,
            !.priceLevel = details.price_level,
            !.website = Or(details.website, data.website),
            !.phoneNumber = Or(details.phone, data.phone),
            !.address = Or(details.address_string, data.address),
            !.photos = Or(details.photo_count, Num(0)),
            !.cuisine = Or(IF details.cuisine.t = "array" THEN details.cuisine ELSE Undef,
                           Arr(<<>>)),
            !.location = [t |-> "location",
                          lat |-> ParseFloat(Or(data.latitude, ToStringOpt(restaurant.lat))),
                          lng |-> ParseFloat(Or(data.longitude, ToStringOpt(restaurant.lon))),
                          den |-> 1]]

\* lines 137-153.  address_string stands for details.address_obj's
\* address_string, data.address for the text made of data.address_obj's
\* street1 and city (undefined when the response has no address_obj).
EnrichedRestaurant(restaurant, data) ==
    LET details == data.details
    IN  [restaurant EXCEPT
            !.locationId = data.location_id,
            !.rating = IF Truthy(details.rating) THEN ParseFloat(details.rating) ELSE Undef,
            !.reviews = IF Truthy(details.num_reviews)
                        THEN ParseInt(details.num_reviews) ELSE Undef,
            !.priceLevel = details.price_level,
            !.website = Or(details.website, data.website),
            !.phoneNumber = Or(details.phone, data.phone),
            !.address = Or(details.address_string, data.address),
            !.photos = Or(details.photo_count, Num(0)),
            !.cuisine = Or(IF details.cuisine.t = "array" THEN details.cuisine ELSE Undef,
                           Arr(<<>>)),
            !.location = [t |-> "location",
                          lat |-> ParseFloat(Or(data.latitude, ToStringOpt(restaurant.lat))),
                          lng |-> ParseFloat(Or(data.longitude, ToStringOpt(restaurant.lon))),
                          den |-> 1]]

\* Whether enrichRestaurantData asks the ratings provider at all (line 115)
MakesLookup(restaurant) == Truthy(restaurant.lat) /\ Truthy(restaurant.lon)

Returns(v) == [threw |-> FALSE, value |-> v]
Throws == [threw |-> TRUE, value |-> Undef]

\* A slip: the request is made without searchLocation's catch and the body
\* runs outside the try of lines 114-169, so a failed request and a throwing
\* merge escape to the caller.
enrichRestaurantData_rethrows(restaurant, reply) ==
    IF ~MakesLookup(restaurant) THEN Returns(restaurant)
    ELSE LET response == makeRequest(reply)
             tripAdvisorData == IF Truthy(response.value) THEN response.value ELSE Null
         IN  IF response.threw THEN Throws
             ELSE IF ~Truthy(tripAdvisorData) \/ ~Truthy(tripAdvisorData.data)
             THEN Returns(restaurant)
             ELSE IF ~Truthy(tripAdvisorData.data.details) THEN Returns(restaurant)
             ELSE IF CuisineMapThrows(tripAdvisorData.data.details) THEN Throws
             ELSE Returns(EnrichedRestaurant(restaurant, tripAdvisorData.data))

\* enrichRestaurantData(restaurant), the fetch of its lookup coming to reply:
\* how the call completes.  The try of lines 114-169 spans the whole body and
\* its catch returns the restaurant, so the call never throws.
enrichRestaurantData(restaurant, reply) ==
    IF ~MakesLookup(restaurant) THEN Returns(restaurant)
    ELSE LET tripAdvisorData == searchLocation(reply)
         IN  IF ~Truthy(tripAdvisorData) \/ ~Truthy(tripAdvisorData.data)
             THEN Returns(restaurant)
             ELSE IF ~Truthy(tripAdvisorData.data.details) THEN Returns(restaurant)
             ELSE IF CuisineMapThrows(tripAdvisorData.data.details)
             THEN Returns(restaurant)
             ELSE Returns(EnrichedRestaurant(restaurant, tripAdvisorData.data))

\* lines 145-156: the merge, given the distance to attach
MergeEnriched(place, enrichedPlace, distance) ==
    [enrichedPlace EXCEPT
        !.rating = Or(enrichedPlace.rating, Num(0)),
        !.reviews = Or(enrichedPlace.reviews, Num(0)),
        !.priceLevel = Or(enrichedPlace.priceLevel, Str("")),
        !.website = Or(enrichedPlace.website, Str("")),
        !.address = Or(enrichedPlace.address, place.address_line1),
        !.cuisine = Or(enrichedPlace.cuisine, Arr(<<>>)),
        !.distance = distance]

\* The mistake the specification warns of: the provider's distance is taken
\* when the response carries one.
EnrichPlace_providerDistance(place, reply) ==
    LET done == enrichRestaurantData(place, reply)
        body == IF reply.kind = "json" THEN reply.body ELSE Null
        provided == IF Truthy(body) /\ Truthy(body.data) THEN body.data.distance ELSE Undef
    IN  IF done.threw THEN place
        ELSE MergeEnriched(place, done.value, Or(provided, place.distance))

\* A slip: the merge of lines 145-156 is left out and the place is returned
\* as enrichRestaurantData gave it.
EnrichPlace_noDefaults(place, reply) ==
    LET done == enrichRestaurantData(place, reply)
    IN  IF done.threw THEN place ELSE [done.value EXCEPT !.distance = place.distance]

\* The callback of places.map, lines 131-161.
EnrichPlace(place, reply) ==
    LET originalDistance == place.distance
        done == enrichRestaurantData(place, reply)
    IN  IF done.threw THEN place
        ELSE MergeEnriched(place, done.value, originalDistance)

(***************************************************************************)
(* Ranker (placesService.ts, lines 165-174).                               *)
(***************************************************************************)
\* The comparator of lines 167-173; numbers in tenths.
Compare(a, b) ==
    LET ratingA == ParseFloat(Or(ToStringOpt(a.rating), NumText(0, "")))
        ratingB == ParseFloat(Or(ToStringOpt(b.rating), NumText(0, "")))
        distanceA == ParseFloat(Or(a.distance, NumText(0, "")))
        distanceB == ParseFloat(Or(b.distance, NumText(0, "")))
    IN  IF IsNaN(ratingA) \/ IsNaN(ratingB) \/ IsNaN(distanceA) \/ IsNaN(distanceB)
        THEN NaN
        ELSE Num((ratingB.v - ratingA.v) * 2 + (distanceA.v - distanceB.v))

\* Array.prototype.sort calls the comparator and reads NaN as +0.
SortCompare(a, b) ==
    LET v == Compare(a, b) IN IF IsNaN(v) THEN 0 ELSE v.v

RECURSIVE InsertSorted(_, _)
\* x put into the sorted sequence s behind every element it does not precede
InsertSorted(s, x) ==
    IF s = <<>> THEN <<x>>
    ELSE IF SortCompare(s[Len(s)], x) > 0
         THEN Append(InsertSorted(SubSeq(s, 1, Len(s) - 1), x), s[Len(s)])
         ELSE Append(s, x)

RECURSIVE SortPlaces(_)
\* Array.prototype.sort is stable: with a comparator that is a consistent
\* ordering the result is the one of an insertion sort.
SortPlaces(s) ==
    IF s = <<>> THEN <<>>
    ELSE InsertSorted(SortPlaces(SubSeq(s, 1, Len(s) - 1)), s[Len(s)])

\* A slip: the end index is taken inclusive.
Slice0_inclusive(s, limit) ==
    SubSeq(s, 1, IF limit < 0 THEN 0 ELSE Min(limit + 1, Len(s)))

\* Array.prototype.slice(0, limit) for an integer limit: a negative limit
\* counts from the end.
Slice0(s, limit) ==
    LET to == IF limit < 0 THEN (IF Len(s) + limit < 0 THEN 0 ELSE Len(s) + limit)
              ELSE Min(limit, Len(s))
    IN  SubSeq(s, 1, to)

\* lines 165-174
RankAndTruncate(enriched, limit) == Slice0(SortPlaces(enriched), limit)

(***************************************************************************)
(* The environment of one call: the arguments a caller may pass, what the  *)
(* places provider may answer to a query, what the fetch of a ratings      *)
(* lookup may come to.                                                     *)
(***************************************************************************)
MaxLimit == 2
\* the features the places provider returns over one search, all queries together
MaxFeatures == 2
LivePoints == 2

Origin == Loc(4000, -7500)

\* location: a valid one, and the ones line 37 turns down
LocationChoices ==
    { Origin, Null, LocNaN,
      [t |-> "location", lat |-> NaN, lng |-> Num(-7500), den |-> 1],
      [t |-> "location", lat |-> Num(4000), lng |-> NaN, den |-> 1] }

\* category: every recognised one, an unknown one and the empty text
CategoryChoices == validCategories \cup {"bar", ""}

\* a route of two legs: north along a meridian, then east along a parallel
RouteCoordinates == <<Loc(4000, -7500), Loc(4004, -7500), Loc(4004, -7496)>>

\* originLocation, mode, route
GeoChoices ==
    { [originLocation |-> Origin, mode |-> "meetup", route |-> Undef],
      [originLocation |-> LocNaN, mode |-> "meetup", route |-> Undef],
      [originLocation |-> Origin, mode |-> "route",
       route |-> Obj([coordinates |-> RouteCoordinates])],
      [originLocation |-> Origin, mode |-> "route", route |-> Undef],
      [originLocation |-> Origin, mode |-> "meetup",
       route |-> Obj([coordinates |-> RouteCoordinates])] }

Props(id, name, lat, lon, address, website) ==
    [place_id |-> id, name |-> name, lat |-> lat, lon |-> lon,
     address_line1 |-> address, website |-> website]

\* What the places provider knows: two records with the identifier A that
\* differ in every other field, one record B, a record A without a name, and
\* a record C on the equator.
FeatureCatalog ==
    { Props(Str("A"), Str("Alpha"), Num(4002), Num(-7500), Str("1 Main St"),
            Str("alpha.example")),
      Props(Str("A"), Str("Alpha Annex"), Num(4000), Num(-7497), Str("2 Side St"), Undef),
      Props(Str("B"), Str("Beta"), Num(4004), Num(-7496), Undef, Undef),
      Props(Str("A"), Undef, Num(4001), Num(-7499), Str("3 Back St"), Undef),
      Props(Str("C"), Str("Gamma"), Num(0), Num(-7500), Undef, Undef) }

RECURSIVE SeqsUpTo(_, _)
SeqsUpTo(S, n) ==
    IF n = 0 THEN {<<>>}
    ELSE LET shorter == SeqsUpTo(S, n - 1)
         IN  shorter \cup {Append(q, x) : q \in shorter, x \in S}

\* The feature lists a query may be answered with
ResponseChoices == SeqsUpTo(FeatureCatalog, MaxFeatures)

Details(rating, reviews, price, website, cuisine) ==
    Obj([rating |-> rating, num_reviews |-> reviews, price_level |-> price,
         website |-> website, phone |-> Undef, address_string |-> Undef,
         photo_count |-> Undef, cuisine |-> cuisine])

Data(id, distance, website, address, details) ==
    Obj([location_id |-> id, latitude |-> NumText(4003, ""), longitude |-> Undef,
         distance |-> distance, website |-> website, phone |-> Undef,
         address |-> address, details |-> details])

Json(body) == [kind |-> "json", body |-> body]

\* What the fetch of a lookup may come to
ReplyChoices ==
    { [kind |-> "reject", body |-> Undef],
      [kind |-> "httpError", body |-> Undef],
      Json(Null),
      Json(Obj([data |-> Null])),
      \* a match without details, carrying the provider's own distance
      Json(Obj([data |-> Data(Str("T1"), NumText(99, " mi"), Str("ta.example/1"),
                              Undef, Undef)])),
      Json(Obj([data |-> Data(Str("T2"), NumText(99, " mi"), Undef, Str("9 High St, Town"),
                              Details(NumText(45, ""), NumText(120, ""), Str("$$"),
                                      Str("ta.example/2"), Arr(<<"Pizza">>)))])),
      Json(Obj([data |-> Data(Str("T3"), Undef, Undef, Undef,
                              Details(NumText(30, ""), Undef, Undef, Undef, Undef))])),
      \* details whose cuisine is not a list: the merge throws
      Json(Obj([data |-> Data(Str("T4"), NumText(99, " mi"), Undef, Undef,
                              Details(NumText(50, ""), NumText(7, ""), Undef, Undef,
                                      Str("Pizza")))])) }

Pending == [t |-> "pending"]

(***************************************************************************)
(* One call of searchNearby.                                               *)
(***************************************************************************)
VARIABLES
    pc,             \* "idle", "searching", "enriching", "resolved", "rejected"
    args,           \* the arguments of the call
    searchPoints,   \* the coverage points
    queries,        \* the params of the places queries issued, in order
    geo,            \* per coverage point: "pending", "fulfilled", "rejected"
    responses,      \* per coverage point: the features its promise resolved to
    places,         \* the candidates
    requests,       \* the ratings requests issued, in order
    lookups,        \* per candidate: Pending, or the reply of its lookup
    enrichedPlaces, \* per candidate: the enriched place once its lookup settled
    sortedPlaces,   \* the value the call resolves to
    kernel,         \* one application of a function of the planner or the
                    \* geometry kernel: its arguments and its result
    now,            \* the proxy's clock (Date.now())
    cache,          \* the proxy's cache: the entries stored, by key
    handled         \* the last invocation of the proxy's handler

searchVars == <<pc, args, searchPoints, queries, geo, responses, places, requests,
                lookups, enrichedPlaces, sortedPlaces>>
kernelVars == <<kernel>>
proxyVars == <<now, cache, handled>>

vars == <<searchVars, kernelVars, proxyVars>>

NoArgs == [location |-> Undef, category |-> "", radius |-> 0, limit |-> 0,
           originLocation |-> Undef, mode |-> "route", route |-> Undef]

\* no function applied
NoKernel == [fn |-> "none", out |-> Null]

\* no invocation handled
NoInvocation == [request |-> Null]

\* the proxy after a cold start (line 4)
ProxyIdle ==
    /\ now = 0
    /\ cache = <<>>
    /\ handled = NoInvocation

\* no call of searchNearby made
SearchIdle ==
    /\ pc = "idle"
    /\ args = NoArgs
    /\ searchPoints = <<>>
    /\ queries = <<>>
    /\ geo = <<>>
    /\ responses = <<>>
    /\ places = <<>>
    /\ requests = <<>>
    /\ lookups = <<>>
    /\ enrichedPlaces = <<>>
    /\ sortedPlaces = <<>>

Init ==
    /\ SearchIdle
    /\ kernel = NoKernel
    /\ ProxyIdle

\* A slip: only the latitude is tested.
InvalidLocation_latOnly(location) ==
    ~Truthy(location) \/ IsNaN(location.lat)

\* line 37
InvalidLocation(location) ==
    ~Truthy(location) \/ IsNaN(location.lat) \/ IsNaN(location.lng)

\* lines 63-81: one query per coverage point, in the order of the points
QueriesOf(points, radius, limit, category) ==
    [i \in 1..Len(points) |-> QueryParams(points[i], radius, limit, category)]

\* lines 36-81: validation, the coverage plan, one query per coverage point
Call(location, category, radius, limit, g) ==
    /\ pc = "idle"
    /\ args' = [location |-> location, category |-> category, radius |-> radius,
                limit |-> limit, originLocation |-> g.originLocation,
                mode |-> g.mode, route |-> g.route]
    /\ IF InvalidLocation(location)
       THEN /\ pc' = "rejected"
            /\ UNCHANGED <<searchPoints, queries, geo, responses>>
       ELSE /\ pc' = "searching"
            /\ searchPoints' = SearchPointsOf(location, radius)
            /\ queries' = QueriesOf(SearchPointsOf(location, radius), radius, limit,
                                    category)
            /\ geo' = [i \in 1..Len(SearchPointsOf(location, radius)) |-> "pending"]
            /\ responses' = [i \in 1..Len(SearchPointsOf(location, radius)) |-> <<>>]
    /\ UNCHANGED <<places, requests, lookups, enrichedPlaces, sortedPlaces>>
    /\ UNCHANGED <<kernelVars, proxyVars>>

\* line 74: the query of coverage point i is answered
PlacesFulfilled(i, features) ==
    /\ pc = "searching"
    /\ i \in 1..Min(LivePoints, Len(geo))
    /\ geo[i] = "pending"
    /\ Len(Flatten(responses)) + Len(features) <= MaxFeatures
    /\ geo' = [geo EXCEPT ![i] = "fulfilled"]
    /\ responses' = [responses EXCEPT ![i] = features]
    /\ UNCHANGED <<pc, args, searchPoints, queries, places, requests, lookups,
                   enrichedPlaces, sortedPlaces>>
    /\ UNCHANGED <<kernelVars, proxyVars>>

\* A slip: the query's promise has no catch, and its failure rejects
\* Promise.all and the call with it.
PlacesRejected_uncaught(i) ==
    /\ pc = "searching"
    /\ i \in 1..Min(LivePoints, Len(geo))
    /\ geo[i] = "pending"
    /\ geo' = [geo EXCEPT ![i] = "rejected"]
    /\ pc' = "rejected"
    /\ UNCHANGED <<args, searchPoints, queries, responses, places, requests, lookups,
                   enrichedPlaces, sortedPlaces>>
    /\ UNCHANGED <<kernelVars, proxyVars>>

\* lines 77-80: the query of coverage point i fails and the failure is caught
PlacesRejected(i) ==
    /\ pc = "searching"
    /\ i \in 1..Min(LivePoints, Len(geo))
    /\ geo[i] = "pending"
    /\ geo' = [geo EXCEPT ![i] = "rejected"]
    /\ responses' = [responses EXCEPT ![i] = <<>>]
    /\ UNCHANGED <<pc, args, searchPoints, queries, places, requests, lookups,
                   enrichedPlaces, sortedPlaces>>
    /\ UNCHANGED <<kernelVars, proxyVars>>

\* The coverage points past the first LivePoints lie where the provider knows
\* no place: their queries settle together, all answered with no feature or
\* all failing.
OuterSettled(outcome) ==
    /\ pc = "searching"
    /\ \E i \in 1..Len(geo) : i > LivePoints /\ geo[i] = "pending"
    /\ geo' = [i \in 1..Len(geo) |-> IF i > LivePoints THEN outcome ELSE geo[i]]
    /\ UNCHANGED <<pc, args, searchPoints, queries, responses, places, requests,
                   lookups, enrichedPlaces, sortedPlaces>>
    /\ UNCHANGED <<kernelVars, proxyVars>>

AllSettled == \A i \in 1..Len(geo) : geo[i] # "pending"

\* tripAdvisorClient.ts, lines 95-99 and 120: the body of the request made
\* for a restaurant
RequestBody(restaurant) ==
    [name |-> restaurant.name, lat |-> restaurant.lat, lon |-> restaurant.lon]

\* the requests of places.map, in the order of the candidates: one for every
\* candidate that passes line 115
RequestsOf(ps) ==
    LET all == [i \in 1..Len(ps) |-> [place |-> i, body |-> RequestBody(ps[i])]]
        asked(r) == MakesLookup(ps[r.place])
    IN  SelectSeq(all, asked)

\* A slip: Promise.race in place of Promise.all, the call goes on as soon as
\* one query has settled and takes the others as empty.
AggregateAndEnrich_race ==
    /\ pc = "searching"
    /\ \E i \in 1..Len(geo) : geo[i] # "pending"
    /\ LET ps == Aggregate(responses, args.originLocation, args.mode, args.route)
       IN  /\ places' = ps
           /\ requests' = RequestsOf(ps)
           /\ lookups' = [i \in 1..Len(ps) |-> Pending]
           /\ enrichedPlaces' = [i \in 1..Len(ps) |->
                  IF MakesLookup(ps[i]) THEN Null ELSE EnrichPlace(ps[i], Pending)]
    /\ pc' = "enriching"
    /\ UNCHANGED <<args, searchPoints, queries, geo, responses, sortedPlaces>>
    /\ UNCHANGED <<kernelVars, proxyVars>>

\* lines 83-134: Promise.all resolves, the features are aggregated and the
\* lookup of every candidate is issued
AggregateAndEnrich ==
    /\ pc = "searching"
    /\ AllSettled
    /\ LET ps == Aggregate(responses, args.originLocation, args.mode, args.route)
       IN  /\ places' = ps
           /\ requests' = RequestsOf(ps)
           /\ lookups' = [i \in 1..Len(ps) |-> Pending]
           /\ enrichedPlaces' = [i \in 1..Len(ps) |->
                  IF MakesLookup(ps[i]) THEN Null ELSE EnrichPlace(ps[i], Pending)]
    /\ pc' = "enriching"
    /\ UNCHANGED <<args, searchPoints, queries, geo, responses, sortedPlaces>>
    /\ UNCHANGED <<kernelVars, proxyVars>>

\* A slip: a lookup whose fetch failed is issued once more.
LookupSettled_retry(i, reply) ==
    /\ pc = "enriching"
    /\ i \in 1..Len(places)
    /\ enrichedPlaces[i] = Null
    /\ IF reply.kind \in {"reject", "httpError"}
          /\ Len(SelectSeq(requests, LAMBDA r : r.place = i)) < 2
       THEN /\ requests' = Append(requests, [place |-> i, body |-> RequestBody(places[i])])
            /\ UNCHANGED <<lookups, enrichedPlaces>>
       ELSE /\ lookups' = [lookups EXCEPT ![i] = reply]
            /\ enrichedPlaces' = [enrichedPlaces EXCEPT ![i] = EnrichPlace(places[i], reply)]
            /\ UNCHANGED requests
    /\ UNCHANGED <<pc, args, searchPoints, queries, geo, responses, places, sortedPlaces>>
    /\ UNCHANGED <<kernelVars, proxyVars>>

\* A slip: the enriched places are collected in the order in which the
\* lookups settle (a push in the callback) and not by Promise.all in the
\* order of the candidates.
LookupSettled_arrivalOrder(i, reply) ==
    /\ pc = "enriching"
    /\ i \in 1..Len(places)
    /\ MakesLookup(places[i])
    /\ lookups[i] = Pending
    /\ \E k \in 1..Len(enrichedPlaces) :
          /\ enrichedPlaces[k] = Null
          /\ \A j \in 1..(k - 1) : enrichedPlaces[j] # Null
          /\ enrichedPlaces' = [enrichedPlaces EXCEPT ![k] = EnrichPlace(places[i], reply)]
    /\ lookups' = [lookups EXCEPT ![i] = reply]
    /\ UNCHANGED <<pc, args, searchPoints, queries, geo, responses, places, requests,
                   sortedPlaces>>
    /\ UNCHANGED <<kernelVars, proxyVars>>

\* lines 134-160: the lookup of candidate i settles
LookupSettled(i, reply) ==
    /\ pc = "enriching"
    /\ i \in 1..Len(places)
    /\ enrichedPlaces[i] = Null
    /\ lookups' = [lookups EXCEPT ![i] = reply]
    /\ enrichedPlaces' = [enrichedPlaces EXCEPT ![i] = EnrichPlace(places[i], reply)]
    /\ UNCHANGED <<pc, args, searchPoints, queries, geo, responses, places, requests,
                   sortedPlaces>>
    /\ UNCHANGED <<kernelVars, proxyVars>>

AllEnriched == \A i \in 1..Len(enrichedPlaces) : enrichedPlaces[i] # Null

\* lines 162-186: Promise.all resolves, sort, truncate, return
Rank ==
    /\ pc = "enriching"
    /\ AllEnriched
    /\ sortedPlaces' = RankAndTruncate(enrichedPlaces, args.limit)
    /\ pc' = "resolved"
    /\ UNCHANGED <<args, searchPoints, queries, geo, responses, places, requests,
                   lookups, enrichedPlaces>>
    /\ UNCHANGED <<kernelVars, proxyVars>>

Next ==
    \/ \E location \in LocationChoices, category \in {"bar"},
          radius \in {1, 5}, limit \in (-1)..MaxLimit, g \in GeoChoices :
              Call(location, category, radius, limit, g)
    \/ \E i \in 1..LivePoints, features \in ResponseChoices : PlacesFulfilled(i, features)
    \/ \E i \in 1..LivePoints : PlacesRejected(i)
    \/ \E outcome \in {"fulfilled", "rejected"} : OuterSettled(outcome)
    \/ AggregateAndEnrich
    \/ \E i \in 1..Len(places), reply \in ReplyChoices : LookupSettled(i, reply)
    \/ Rank

Spec == Init /\ [][Next]_vars

(***************************************************************************)
(* The planner and the geometry kernel on their own: one application of    *)
(* the plan of lines 41-81 to a location, a category, a radius and a       *)
(* limit, or of calculateRouteDistance to each vertex of a polyline.       *)
(***************************************************************************)
MaxRadius == 10
MaxVertices == 4

\* limit: one below and one above the largest a query asks for
LimitChoices == {1, 60}

\* location: the origin of the searches above, and a valid coordinate next
\* to the pole and the antimeridian
PlanLocations == {Origin, Loc(8995, 17995)}

PlanInputs ==
    { [fn |-> "plan", location |-> location, category |-> category,
       radius |-> radius, limit |-> limit, out |-> Null] :
          location \in PlanLocations, category \in CategoryChoices,
          radius \in (-1)..MaxRadius, limit \in LimitChoices }

\* the vertices a polyline is drawn from: three on a meridian, two more that
\* close a square
PolylinePoints ==
    { Loc(4000, -7500), Loc(4002, -7500), Loc(4004, -7500),
      Loc(4004, -7496), Loc(4000, -7496) }

Polylines == {q \in SeqsUpTo(PolylinePoints, MaxVertices) : Len(q) >= 2}

RouteInputs == { [fn |-> "route", polyline |-> q, out |-> Null] : q \in Polylines }

\* the points a scan is made for: the vertices, and two points off them
ScanPoints == PolylinePoints \cup {Loc(4002, -7498), Loc(4001, -7499)}

ScanInputs ==
    { [fn |-> "scan", point |-> point, polyline |-> q, out |-> Null] :
          point \in ScanPoints, q \in Polylines }

(***************************************************************************)
(* The proxy's makeRequest (tripadvisor-proxy.js, lines 15-51) on its own: *)
(* one call against a sequence of upstream outcomes, the k-th fetch        *)
(* getting the k-th outcome.                                               *)
(***************************************************************************)
MAX_RETRIES == 3

\* the length of the sequences of upstream outcomes
MaxOutcomes == 5

\* what one fetch comes to: it rejects (a network error), or it resolves with
\* a status and a body text
NetworkError == [kind |-> "networkError"]

UpstreamResponse(status, text) == [kind |-> "response", status |-> status, text |-> text]

\* the parsed body of an OK response with data
UpstreamData == Obj([data |-> <<>>])

FetchOutcomes ==
    { NetworkError,
      UpstreamResponse(429, Str("Too Many Requests")),
      UpstreamResponse(500, Str("Internal Server Error")),
      UpstreamResponse(200, Str("<html>")),
      UpstreamResponse(200, UpstreamData) }

\* response.ok
ResponseOk(response) == response.status >= 200 /\ response.status <= 299

\* A slip: <= in place of <, one retry more.
RECURSIVE proxyMakeRequest_oneMore(_, _)
proxyMakeRequest_oneMore(outcomes, retryCount) ==
    LET fetched == outcomes[retryCount + 1]
        thrown == [threw |-> TRUE, value |-> Undef, attempts |-> retryCount + 1]
        caught == IF retryCount <= MAX_RETRIES
                  THEN proxyMakeRequest_oneMore(outcomes, retryCount + 1)
                  ELSE thrown
    IN  IF fetched.kind = "networkError" THEN caught
        ELSE IF fetched.status = 429 /\ retryCount <= MAX_RETRIES
             THEN proxyMakeRequest_oneMore(outcomes, retryCount + 1)
        ELSE IF ~ResponseOk(fetched) THEN caught
        ELSE IF fetched.text.t # "object" THEN caught
        ELSE [threw |-> FALSE, value |-> fetched.text, attempts |-> retryCount + 1]

\* makeRequest(url, options, retryCount) of the proxy, lines 15-51: the
\* completion of the call and the number of the last fetch made.  The retry
\* of line 26 is returned without await, so its rejection is not caught by
\* line 41 once more; every path makes at most one recursive call.
RECURSIVE proxyMakeRequest(_, _)
proxyMakeRequest(outcomes, retryCount) ==
    LET fetched == outcomes[retryCount + 1]
        thrown == [threw |-> TRUE, value |-> Undef, attempts |-> retryCount + 1]
        \* lines 41-49
        caught == IF retryCount < MAX_RETRIES
                  THEN proxyMakeRequest(outcomes, retryCount + 1)
                  ELSE thrown
    IN  IF fetched.kind = "networkError" THEN caught
        \* lines 22-27
        ELSE IF fetched.status = 429 /\ retryCount < MAX_RETRIES
             THEN proxyMakeRequest(outcomes, retryCount + 1)
        \* lines 29-32
        ELSE IF ~ResponseOk(fetched) THEN caught
        \* lines 34-40: JSON.parse throws on a text that is no JSON
        ELSE IF fetched.text.t # "object" THEN caught
        ELSE [threw |-> FALSE, value |-> fetched.text, attempts |-> retryCount + 1]

RequestInputs ==
    { [fn |-> "makeRequest", outcomes |-> o, out |-> Null] :
          o \in [1..MaxOutcomes -> FetchOutcomes] }

KernelInit ==
    /\ SearchIdle
    /\ ProxyIdle
    /\ kernel \in PlanInputs \cup RouteInputs \cup ScanInputs \cup RequestInputs

\* lines 41-81: the coverage points and the params of their queries
Plan ==
    /\ kernel.fn = "plan"
    /\ kernel.out = Null
    /\ LET points == SearchPointsOf(kernel.location, kernel.radius)
       IN  kernel' = [kernel EXCEPT !.out =
               [searchPoints |-> points,
                queries |-> QueriesOf(points, kernel.radius, kernel.limit,
                                      kernel.category)]]
    /\ UNCHANGED <<searchVars, proxyVars>>

\* lines 195-237 for each vertex of the polyline, before toFixed
AlongRoute ==
    /\ kernel.fn = "route"
    /\ kernel.out = Null
    /\ kernel' = [kernel EXCEPT !.out =
           [k \in 1..Len(kernel.polyline) |->
               RouteMiles(kernel.polyline[k], kernel.polyline)]]
    /\ UNCHANGED <<searchVars, proxyVars>>

\* lines 195-218: the nearest-segment scan for one point
Scan ==
    /\ kernel.fn = "scan"
    /\ kernel.out = Null
    /\ kernel' = [kernel EXCEPT !.out =
           ClosestScan(kernel.point, kernel.polyline, Len(kernel.polyline))]
    /\ UNCHANGED <<searchVars, proxyVars>>

\* tripadvisor-proxy.js, lines 15-51: one call of makeRequest
Request ==
    /\ kernel.fn = "makeRequest"
    /\ kernel.out = Null
    /\ kernel' = [kernel EXCEPT !.out = proxyMakeRequest(kernel.outcomes, 0)]
    /\ UNCHANGED <<searchVars, proxyVars>>

KernelNext == Plan \/ AlongRoute \/ Scan \/ Request

KernelSpec == KernelInit /\ [][KernelNext]_vars

(***************************************************************************)
(* The ratings proxy (tripadvisor-proxy.js): invocations of its handler,   *)
(* one after the other, over a cache that lives between them.  Time is     *)
(* counted in half hours.  A request body is modelled by what JSON.parse   *)
(* makes of it: an object, or a throw.  What makeRequest (lines 15-51)     *)
(* comes to for an upstream URL is an input of the invocation.             *)
(***************************************************************************)
CACHE_TTL == 2
MaxClock == 3

\* obj.field, undefined when the object has no such field
Get(obj, field) == IF field \in DOMAIN obj THEN obj[field] ELSE Undef

\* the body tripAdvisorClient.ts posts (lines 95-99); JSON.stringify leaves
\* out a name that is undefined
SearchBody(name) ==
    Obj([name |-> name, lat |-> Num(4002), lon |-> Num(-7500), locationId |-> Undef])

DetailsBody(locationId) ==
    Obj([name |-> Undef, lat |-> Undef, lon |-> Undef, locationId |-> locationId])

BodyChoices ==
    { SearchBody(Str("Alpha")), SearchBody(Str("")), SearchBody(Undef),
      DetailsBody(Str("T2")), Str("{") }

EventChoices ==
    { [httpMethod |-> m, body |-> b] : m \in {"POST"}, b \in BodyChoices }
    \cup { [httpMethod |-> m, body |-> SearchBody(Str("Alpha"))] : m \in {"GET", "OPTIONS"} }

\* JSON.parse(event.body)
JSONParse(body) == IF body.t = "object" THEN Returns(body) ELSE Throws

\* name.toLowerCase().replace(/[^a-z0-9]/g, '') on the names in use
Normalized(name) ==
    CASE name \in {Str("Alpha"), Str("ALPHA!")} -> "alpha"
      [] name = Str("Alpha Grill") -> "alphagrill"
      [] OTHER -> "other"

Match(id, name, distance) ==
    Obj([location_id |-> id, name |-> name, distance |-> distance])

\* what makeRequest comes to for the search URL
SearchOutcomes ==
    { Throws, Returns(Null), Returns(Obj([data |-> Arr(<<>>)])),
      Returns(Obj([data |-> Arr(<<Match(Str("T9"), Str("Alpha Grill"), Undef),
                                 Match(Str("T2"), Str("ALPHA!"), NumText(993, ""))>>)])),
      Returns(Obj([data |-> Arr(<<Match(Str("T9"), Str("Alpha Grill"), Undef)>>)])) }

\* what makeRequest comes to for a details URL
DetailsOutcomes ==
    { Throws, Returns(Null),
      Returns(Obj([rating |-> NumText(45, ""), website |-> Str("ta.example/2"),
                   cuisine |-> Undef])),
      Returns(Obj([data |-> Obj([rating |-> NumText(45, "")])])) }

\* A slip: <= in place of <, an entry of exactly CACHE_TTL is still served.
getFromCache_inclusive(key) ==
    IF key \in DOMAIN cache /\ now - cache[key].timestamp <= CACHE_TTL
    THEN cache[key].data
    ELSE Null

\* lines 57-64
getFromCache(key) ==
    IF key \in DOMAIN cache /\ now - cache[key].timestamp < CACHE_TTL
    THEN cache[key].data
    ELSE Null

\* lines 66-71: the cache after setInCache(key, data)
setInCache(key, data) ==
    [k \in DOMAIN cache \cup {key} |->
        IF k = key THEN [data |-> data, timestamp |-> now] ELSE cache[k]]

\* results.find(...) || results[0], lines 192-198
BestMatch(name, results) ==
    LET same == {k \in 1..Len(results) : Normalized(results[k].name) = Normalized(name)}
    IN  IF same # {} THEN results[CHOOSE k \in same : \A m \in same : k <= m]
        ELSE results[1]

\* lines 216-228 and 263-276: the best match without details
Degraded(bestMatch) ==
    bestMatch @@ [rating |-> Null, reviews |-> Null, priceLevel |-> Null,
                  website |-> Null, address |-> Null, cuisine |-> Arr(<<>>),
                  phone |-> Null]

\* lines 234-247
EnrichedData(bestMatch, detailsResponse) ==
    [distance |-> IF Truthy(bestMatch.distance)
                  THEN NumText((ParseFloat(bestMatch.distance).v + 5) \div 10, " mi")
                  ELSE Null]
    @@ bestMatch
    @@ [details |-> detailsResponse,
        rating |-> Get(detailsResponse, "rating"),
        reviews |-> Get(detailsResponse, "num_reviews"),
        priceLevel |-> Get(detailsResponse, "price_level"),
        website |-> Get(detailsResponse, "website"),
        address |-> Null,
        cuisine |-> Arr(<<>>),
        phone |-> Get(detailsResponse, "phone")]

\* what one invocation comes to: the response, the upstream requests made,
\* and the entry stored in the cache (Null when none is)
Outcome(statusCode, data, fetched, stored) ==
    [response |-> [statusCode |-> statusCode, data |-> data],
     fetched |-> fetched, stored |-> stored]

\* lines 279-306: the catch of the handler; nothing thrown in it carries the
\* message 'Missing required parameters'
Caught(message, fetched) ==
    Outcome(IF message = "Missing required parameters" THEN 400 ELSE 500,
            Undef, fetched, Null)

\* lines 136-160: a details request
handleDetails(parsedBody, details) ==
    IF details.threw THEN Caught("API error", <<"details">>)
    ELSE IF ~Truthy(details.value) \/ ~Truthy(Get(details.value, "data"))
    THEN Outcome(200, Null, <<"details">>, Null)
    ELSE Outcome(200, details.value, <<"details">>,
                 [key |-> parsedBody, data |-> details.value])

\* A slip: the best match without details is stored like a full result.
handleSearch_cachesDegraded(parsedBody, search, details) ==
    IF ~Truthy(parsedBody.name) THEN Outcome(200, Null, <<>>, Null)
    ELSE IF search.threw THEN Caught("API error", <<"search">>)
    ELSE IF \/ ~Truthy(search.value)
            \/ ~Truthy(Get(search.value, "data"))
            \/ search.value.data.xs = <<>>
    THEN Outcome(200, Null, <<"search">>, Null)
    ELSE LET bestMatch == BestMatch(parsedBody.name, search.value.data.xs)
         IN  IF details.threw \/ ~Truthy(details.value)
             THEN Outcome(200, Degraded(bestMatch), <<"search", "details">>,
                          [key |-> parsedBody, data |-> Degraded(bestMatch)])
             ELSE Outcome(200, EnrichedData(bestMatch, details.value),
                          <<"search", "details">>,
                          [key |-> parsedBody,
                           data |-> EnrichedData(bestMatch, details.value)])

\* lines 162-278: a search request
handleSearch(parsedBody, search, details) ==
    IF ~Truthy(parsedBody.name) THEN Outcome(200, Null, <<>>, Null)
    ELSE IF search.threw THEN Caught("API error", <<"search">>)
    ELSE IF \/ ~Truthy(search.value)
            \/ ~Truthy(Get(search.value, "data"))
            \/ search.value.data.xs = <<>>
    THEN Outcome(200, Null, <<"search">>, Null)
    ELSE LET bestMatch == BestMatch(parsedBody.name, search.value.data.xs)
         IN  IF details.threw \/ ~Truthy(details.value)
             THEN Outcome(200, Degraded(bestMatch), <<"search", "details">>, Null)
             ELSE Outcome(200, EnrichedData(bestMatch, details.value),
                          <<"search", "details">>,
                          [key |-> parsedBody,
                           data |-> EnrichedData(bestMatch, details.value)])

\* exports.handler, lines 73-307
handler(event, hasKey, search, details) ==
    IF ~hasKey THEN Outcome(500, Undef, <<>>, Null)
    ELSE IF event.httpMethod = "OPTIONS" THEN Outcome(204, Undef, <<>>, Null)
    ELSE IF event.httpMethod # "POST" THEN Outcome(405, Undef, <<>>, Null)
    ELSE IF JSONParse(event.body).threw THEN Caught("Unexpected token", <<>>)
    ELSE LET parsedBody == JSONParse(event.body).value
             cachedResult == getFromCache(parsedBody)
         IN  IF Truthy(cachedResult) THEN Outcome(200, cachedResult, <<>>, Null)
             ELSE IF Truthy(parsedBody.locationId)
             THEN handleDetails(parsedBody, details)
             ELSE handleSearch(parsedBody, search, details)

\* one invocation of the handler; handled keeps, next to the request and
\* what it came to, the time of the invocation and the cache it found
Handle(event, hasKey, search, details) ==
    /\ LET done == handler(event, hasKey, search, details)
       IN  /\ handled' = [request |-> event, hasKey |-> hasKey,
                          response |-> done.response, fetched |-> done.fetched,
                          at |-> now, cacheBefore |-> cache]
           /\ cache' = IF done.stored = Null THEN cache
                       ELSE setInCache(done.stored.key, done.stored.data)
    /\ UNCHANGED <<now, searchVars, kernelVars>>

\* half an hour passes
Tick ==
    /\ now < MaxClock
    /\ now' = now + 1
    /\ UNCHANGED <<cache, handled, searchVars, kernelVars>>

ProxyInit ==
    /\ SearchIdle
    /\ kernel = NoKernel
    /\ ProxyIdle

ProxyNext ==
    \/ \E event \in EventChoices, hasKey \in BOOLEAN, search \in SearchOutcomes,
          details \in DetailsOutcomes : Handle(event, hasKey, search, details)
    \/ Tick

ProxySpec == ProxyInit /\ [][ProxyNext]_vars

(***************************************************************************)
(* Properties.                                                             *)
(***************************************************************************)
Aggregated == pc \in {"enriching", "resolved"}

\* the features of all responses, in the order the aggregator visits them
Features == Flatten(responses)

\* the candidate a returned place was made from
CandidateOf(p) == CHOOSE i \in 1..Len(places) : places[i].place_id = p.place_id

\* the body of a reply carries a provider distance
CarriesDistance(reply) ==
    /\ reply.kind = "json"
    /\ Truthy(reply.body)
    /\ Truthy(reply.body.data)
    /\ Truthy(reply.body.data.distance)

\* the reply leads to the merge of lines 137-153
Merges(reply) ==
    /\ reply.kind = "json"
    /\ Truthy(reply.body)
    /\ Truthy(reply.body.data)
    /\ Truthy(reply.body.data.details)
    /\ ~CuisineMapThrows(reply.body.data.details)

\* C1: every enriched place, and every place the call returns, carries the
\* distance text its candidate was given by the aggregator, whatever the
\* lookup came to and whatever distance the ratings response carries.
C1_DistancePreserved ==
    /\ \A i \in 1..Len(enrichedPlaces) :
          enrichedPlaces[i] # Null => enrichedPlaces[i].distance = places[i].distance
    /\ \A k \in 1..Len(sortedPlaces) :
          /\ \E i \in 1..Len(places) : places[i].place_id = sortedPlaces[k].place_id
          /\ sortedPlaces[k].distance = places[CandidateOf(sortedPlaces[k])].distance

\* C1 witness: a returned place whose lookup was merged from a response that
\* carries the provider's own distance, next to one whose lookup failed.
C1_Witness ==
    /\ pc = "resolved"
    /\ \E k \in 1..Len(sortedPlaces) :
          LET i == CandidateOf(sortedPlaces[k])
          IN  /\ Merges(lookups[i])
              /\ CarriesDistance(lookups[i])
              /\ lookups[i].body.data.distance # places[i].distance
    /\ \E k \in 1..Len(sortedPlaces) :
          lookups[CandidateOf(sortedPlaces[k])].kind = "reject"

\* a feature with a name and both coordinates
Complete(props) == Truthy(props.name) /\ Truthy(props.lat) /\ Truthy(props.lon)

\* the candidate carries the fields of the feature
CarriesFields(place, props) ==
    /\ place.place_id = props.place_id
    /\ place.name = props.name
    /\ place.lat = props.lat
    /\ place.lon = props.lon
    /\ place.address_line1 = props.address_line1
    /\ place.website = props.website

NoSharedId ==
    \A i, j \in 1..Len(places) : places[i].place_id = places[j].place_id => i = j

\* the positions of the first occurrence of each identifier
FirstOccurrences ==
    {k \in 1..Len(Features) :
        \A j \in 1..(k - 1) : Features[j].place_id # Features[k].place_id}

\* the positions of the first complete occurrence of each identifier
FirstCompleteOccurrences ==
    {k \in 1..Len(Features) :
        /\ Complete(Features[k])
        /\ \A j \in 1..(k - 1) :
              Complete(Features[j]) => Features[j].place_id # Features[k].place_id}

\* C2 as stated: no two candidates share an identifier, each candidate
\* carries the fields of the first occurrence of its identifier among all
\* features, and the candidates are in the order of these first occurrences.
C2_FirstOccurrenceWins ==
    Aggregated =>
        /\ NoSharedId
        /\ \A i \in 1..Len(places) :
              \E k \in FirstOccurrences :
                  /\ CarriesFields(places[i], Features[k])
                  /\ Cardinality({m \in FirstOccurrences :
                         m < k /\ \E j \in 1..Len(places) :
                             places[j].place_id = Features[m].place_id}) = i - 1

\* C2 amended: no two candidates share an identifier, and the candidates are
\* exactly the first complete occurrences (name and both coordinates present)
\* of each identifier, in the order the features are visited.
C2_FirstCompleteOccurrenceWins ==
    Aggregated =>
        /\ NoSharedId
        /\ Len(places) = Cardinality(FirstCompleteOccurrences)
        /\ \A i \in 1..Len(places) :
              \E k \in FirstCompleteOccurrences :
                  /\ CarriesFields(places[i], Features[k])
                  /\ Cardinality({m \in FirstCompleteOccurrences : m < k}) = i - 1

\* C2 witness: two coverage points both return the identifier A with
\* different fields, and one candidate A is kept.
C2_Witness ==
    /\ Aggregated
    /\ Len(responses) >= 2
    /\ \E f \in 1..Len(responses[1]), h \in 1..Len(responses[2]) :
          /\ Complete(responses[1][f]) /\ Complete(responses[2][h])
          /\ responses[1][f].place_id = responses[2][h].place_id
          /\ responses[1][f].name # responses[2][h].name
    /\ Len(places) = 1

\* C3: a failed places query never rejects the call; while any query is
\* pending the call is still waiting for it, whatever happened to its
\* siblings, and the call goes on only once every query has settled; a failed
\* query counts as an empty feature list; and every complete feature of a
\* fulfilled query has its identifier among the candidates.
C3_PartialFailure ==
    /\ pc = "rejected" => geo = <<>>
    /\ Aggregated => AllSettled
    /\ \A i \in 1..Len(geo) : geo[i] = "rejected" => responses[i] = <<>>
    /\ Aggregated =>
          \A i \in 1..Len(geo) : \A f \in 1..Len(responses[i]) :
              Complete(responses[i][f]) =>
                  \E c \in 1..Len(places) : places[c].place_id = responses[i][f].place_id
    /\ (\E i \in 1..Len(geo) : geo[i] = "pending") => pc = "searching"

\* C3 witness: one query failed, a sibling answered after it with a feature
\* that became a candidate.
C3_Witness ==
    /\ Aggregated
    /\ \E i, j \in 1..Len(geo) :
          /\ geo[i] = "rejected"
          /\ geo[j] = "fulfilled"
          /\ responses[j] # <<>>
    /\ Len(places) >= 1

AllFailed == geo # <<>> /\ \A i \in 1..Len(geo) : geo[i] = "rejected"

\* C4: when every places query has failed the call is not rejected, it goes
\* on with no candidate and no ratings lookup, and resolves with the empty
\* list.
C4_TotalFailure ==
    AllFailed =>
        /\ pc # "rejected"
        /\ Aggregated => places = <<>> /\ lookups = <<>> /\ enrichedPlaces = <<>>
        /\ pc = "resolved" => sortedPlaces = <<>>

\* C4 witness: a search over the whole grid resolved after all its queries
\* failed.
C4_Witness ==
    /\ pc = "resolved"
    /\ Len(geo) > 1
    /\ AllFailed

\* the lookup failed: the fetch rejected, the response was an HTTP error, or
\* the merge threw
Failed(reply) ==
    \/ reply.kind \in {"reject", "httpError"}
    \/ /\ reply.kind = "json"
       /\ Truthy(reply.body)
       /\ Truthy(reply.body.data)
       /\ Truthy(reply.body.data.details)
       /\ CuisineMapThrows(reply.body.data.details)

\* the lookup found no match: a null body, or a body without data
NoMatch(reply) ==
    /\ reply.kind = "json"
    /\ ~Truthy(reply.body) \/ ~Truthy(reply.body.data)

Settled(i) == enrichedPlaces[i] # Null /\ lookups[i] # Pending

\* C5: a failed lookup never rejects the call (a call that has candidates is
\* never rejected); the failing candidate's place is the one a null response
\* gives; and whatever happened to the other lookups, a candidate whose
\* response was merged has the identifier and the rating of its own response.
C5_FailureIsolated ==
    /\ places # <<>> => pc # "rejected"
    /\ \A i \in 1..Len(enrichedPlaces) :
          (Settled(i) /\ Failed(lookups[i])) =>
              enrichedPlaces[i] = EnrichPlace(places[i], Json(Null))
    /\ \A j \in 1..Len(enrichedPlaces) :
          (Settled(j) /\ Merges(lookups[j])) =>
              /\ enrichedPlaces[j].locationId = lookups[j].body.data.location_id
              /\ enrichedPlaces[j].rating =
                    ParseFloat(lookups[j].body.data.details.rating)

\* C5 witness: the call returned two places, one whose lookup failed in the
\* merge and one whose lookup was merged.
C5_Witness ==
    /\ pc = "resolved"
    /\ Len(sortedPlaces) = 2
    /\ \E i, j \in 1..Len(places) :
          /\ lookups[i].kind = "json" /\ Failed(lookups[i])
          /\ Merges(lookups[j])

\* the fields of a candidate that a lookup without a match leaves alone
SameCandidateFields(e, place) ==
    /\ e.place_id = place.place_id
    /\ e.locationId = place.locationId
    /\ e.name = place.name
    /\ e.lat = place.lat
    /\ e.lon = place.lon
    /\ e.location = place.location
    /\ e.address_line1 = place.address_line1
    /\ e.photos = place.photos
    /\ e.phoneNumber = place.phoneNumber
    /\ e.distance = place.distance

\* C6 as stated: after a lookup without a match the place has rating 0,
\* reviews 0, an empty price tier, an empty website and an empty cuisine list,
\* and every other field of the candidate unchanged.
C6_NoMatchDefaults ==
    \A i \in 1..Len(enrichedPlaces) :
        (Settled(i) /\ NoMatch(lookups[i])) =>
            /\ enrichedPlaces[i].rating = Num(0)
            /\ enrichedPlaces[i].reviews = Num(0)
            /\ enrichedPlaces[i].priceLevel = Str("")
            /\ enrichedPlaces[i].website = Str("")
            /\ enrichedPlaces[i].cuisine = Arr(<<>>)
            /\ SameCandidateFields(enrichedPlaces[i], places[i])

\* C6 amended: after a lookup without a match the place has rating 0,
\* reviews 0, an empty price tier and an empty cuisine list; its website is
\* the candidate's own website, empty only when the candidate has none; its
\* address is the candidate's first address line; every other field of the
\* candidate is unchanged.
C6_NoMatchKeepsWebsite ==
    \A i \in 1..Len(enrichedPlaces) :
        (Settled(i) /\ NoMatch(lookups[i])) =>
            /\ enrichedPlaces[i].rating = Num(0)
            /\ enrichedPlaces[i].reviews = Num(0)
            /\ enrichedPlaces[i].priceLevel = Str("")
            /\ enrichedPlaces[i].website =
                  (IF Truthy(places[i].website) THEN places[i].website ELSE Str(""))
            /\ enrichedPlaces[i].address = places[i].address_line1
            /\ enrichedPlaces[i].cuisine = Arr(<<>>)
            /\ SameCandidateFields(enrichedPlaces[i], places[i])

\* C6 witness: a null body for a candidate that has a website of its own and
\* a body without data for a candidate that has none.
C6_Witness ==
    \E i, j \in 1..Len(enrichedPlaces) :
        /\ Settled(i) /\ lookups[i] = Json(Null) /\ Truthy(places[i].website)
        /\ Settled(j) /\ NoMatch(lookups[j]) /\ lookups[j] # Json(Null)
        /\ ~Truthy(places[j].website)

\* The composite score of the specification, in tenths: 2 * rating minus the
\* miles of the distance text, a missing rating and an unparseable distance
\* counting 0.
Score(p) ==
    LET rating == IF p.rating.t = "number" THEN p.rating.v ELSE 0
        miles == ParseFloat(p.distance)
    IN  2 * rating - (IF IsNaN(miles) THEN 0 ELSE miles.v)

\* C7: the returned list is in descending order of the composite score.
C7_DescendingScore ==
    pc = "resolved" =>
        \A k \in 1..(Len(sortedPlaces) - 1) :
            Score(sortedPlaces[k]) >= Score(sortedPlaces[k + 1])

\* C8: the comparator scores a place whose distance text has no number with
\* distanceMiles = 0: for any two enriched places it yields the difference
\* of their composite scores, a number.
C8_UnparseableDistanceScoresZero ==
    (pc = "enriching" /\ AllEnriched) =>
        \A i, j \in 1..Len(enrichedPlaces) :
            Compare(enrichedPlaces[i], enrichedPlaces[j])
                = Num(Score(enrichedPlaces[j]) - Score(enrichedPlaces[i]))

\* C9 as stated: the returned list is no longer than the limit, for every
\* limit.
C9_LengthWithinAnyLimit ==
    pc = "resolved" => Len(sortedPlaces) <= args.limit

\* C9 amended: for every limit that is not negative, the returned list is no
\* longer than the limit: it has min(limit, n) of the n enriched places.  For
\* a negative limit -k it has all but k of them (none when k exceeds n).
C9_LengthWithinLimit ==
    pc = "resolved" =>
        LET n == Len(enrichedPlaces)
        IN  IF args.limit >= 0
            THEN /\ Len(sortedPlaces) <= args.limit
                 /\ Len(sortedPlaces) = Min(args.limit, n)
            ELSE Len(sortedPlaces) = (IF n + args.limit < 0 THEN 0 ELSE n + args.limit)

\* C9 witness: two candidates were enriched and the limit 1 cut the list.
C9_Witness ==
    /\ pc = "resolved"
    /\ args.limit = 1
    /\ Len(enrichedPlaces) = 2
    /\ Len(sortedPlaces) = 1

Returned(p) == \E k \in 1..Len(sortedPlaces) : sortedPlaces[k] = p

\* C10: with n candidates and a limit that is not negative, every candidate
\* was enriched before the cut, min(limit, n) places are returned, and no
\* place left out has a strictly higher composite score than a returned one.
C10_TruncationAfterSort ==
    (pc = "resolved" /\ args.limit >= 0) =>
        /\ Len(enrichedPlaces) = Len(places)
        /\ AllEnriched
        /\ Len(sortedPlaces) = Min(args.limit, Len(places))
        /\ \A i \in 1..Len(enrichedPlaces) :
              ~Returned(enrichedPlaces[i]) =>
                  \A k \in 1..Len(sortedPlaces) :
                      Score(enrichedPlaces[i]) <= Score(sortedPlaces[k])

\* the plan of lines 41-81 has been applied
Planned == kernel.fn = "plan" /\ kernel.out # Null

\* ceil(metres / 5000) for a radius above the provider's maximum
GridMultiplier(radius) ==
    CHOOSE g \in 1..(MaxRadius + 1) :
        /\ (g - 1) * ProviderMaxCm < radius * CmPerMile
        /\ radius * CmPerMile <= g * ProviderMaxCm

\* the points of the square grid of half-width g around location
GridAround(location, g) ==
    { Loc(location.lat.v + i * GridStep, location.lng.v + j * GridStep) :
          i \in (-g)..g, j \in (-g)..g }

\* C11: a radius of at most 5000 m gives the origin alone; a larger one gives
\* the origin first, then every other point of the grid of half-width
\* g = ceil(metres / 5000): (2g+1)^2 points, no two of them equal, the origin
\* among them once.
C11_CoveragePlan ==
    Planned =>
        LET points == kernel.out.searchPoints
        IN  IF kernel.radius * CmPerMile <= ProviderMaxCm
            THEN points = <<kernel.location>>
            ELSE LET g == GridMultiplier(kernel.radius)
                 IN  /\ points[1] = kernel.location
                     /\ Len(points) = (2 * g + 1) * (2 * g + 1)
                     /\ {points[k] : k \in 1..Len(points)} = GridAround(kernel.location, g)
                     /\ \A k, m \in 1..Len(points) : points[k] = points[m] => k = m

\* C11 witness: a radius that needs the grid of half-width 3, 49 points.
C11_Witness ==
    /\ Planned
    /\ Len(kernel.out.searchPoints) = 49
    /\ GridMultiplier(kernel.radius) = 3

\* C12 as stated: every query of the plan, in the single-origin case and in
\* the grid case, asks for the radius 5000 m.
C12_ProviderMaxRadius ==
    Planned =>
        \A k \in 1..Len(kernel.out.queries) :
            kernel.out.queries[k].filter.radius = ProviderMaxCm

\* C12 amended: there is one query per coverage point, centred on it, and
\* its radius is the smaller of the radius asked for (in metres) and 5000 m:
\* 5000 m in the grid case, the radius asked for in the single-origin case
\* whenever that is below 5000 m.
C12_PerPointRadius ==
    Planned =>
        /\ Len(kernel.out.queries) = Len(kernel.out.searchPoints)
        /\ \A k \in 1..Len(kernel.out.queries) :
              LET filter == kernel.out.queries[k].filter
              IN  /\ filter.lat = kernel.out.searchPoints[k].lat
                  /\ filter.lng = kernel.out.searchPoints[k].lng
                  /\ filter.radius =
                        (IF kernel.radius * CmPerMile < ProviderMaxCm
                         THEN kernel.radius * CmPerMile ELSE ProviderMaxCm)
                  /\ Len(kernel.out.queries) > 1 => filter.radius = ProviderMaxCm

\* C12 witness: a plan of 25 points, each queried with 5000 m.
C12_Witness ==
    /\ Planned
    /\ Len(kernel.out.queries) = 25
    /\ \A k \in 1..25 : kernel.out.queries[k].filter.radius = ProviderMaxCm

\* C13: a call whose location is absent, or has a NaN latitude or longitude,
\* is rejected, and no places query and no ratings lookup has been issued.
C13_InvalidLocationRejected ==
    (/\ pc # "idle"
     /\ \/ args.location \in {Null, Undef}
        \/ args.location.lat = NaN
        \/ args.location.lng = NaN)
    => /\ pc = "rejected"
       /\ searchPoints = <<>>
       /\ queries = <<>>
       /\ geo = <<>>
       /\ requests = <<>>
       /\ lookups = <<>>

\* C13 witness: a call rejected for a location whose longitude alone is NaN.
C13_Witness ==
    /\ pc = "rejected"
    /\ args.location # Null
    /\ args.location.lat # NaN
    /\ args.location.lng = NaN

\* C15: no ratings lookup is issued, and no candidate exists, before every
\* places query has settled (answered, or failed and caught); the call does
\* not return, and nothing is sorted, before the lookup of every candidate
\* has settled.
C15_StageBarrier ==
    /\ (pc \in {"enriching", "resolved"} \/ places # <<>> \/ requests # <<>>
          \/ lookups # <<>>)
          => \A i \in 1..Len(geo) : geo[i] \in {"fulfilled", "rejected"}
    /\ (pc = "resolved" \/ sortedPlaces # <<>>)
          => /\ Len(enrichedPlaces) = Len(places)
             /\ \A i \in 1..Len(places) :
                   lookups[i] # Pending /\ enrichedPlaces[i] # Null

\* C15 witness: a search over the grid returned two places after queries
\* that were answered and queries that failed.
C15_Witness ==
    /\ pc = "resolved"
    /\ Len(geo) > 1
    /\ \E i, j \in 1..Len(geo) : geo[i] = "fulfilled" /\ geo[j] = "rejected"
    /\ Len(sortedPlaces) = 2

\* the number of ratings requests issued for candidate i
RequestCount(i) == Cardinality({k \in 1..Len(requests) : requests[k].place = i})

\* C16: once the call is past validation there is exactly one places query
\* per coverage point, centred on it; once the candidates exist there is
\* exactly one ratings request for each of them, whatever the limit, and
\* none for anything else; a query or a lookup that failed is not issued
\* again.
C16_NoReissue ==
    /\ pc \in {"searching", "enriching", "resolved"} =>
          /\ Len(queries) = Len(searchPoints)
          /\ \A i \in 1..Len(searchPoints) :
                /\ queries[i].filter.lat = searchPoints[i].lat
                /\ queries[i].filter.lng = searchPoints[i].lng
    /\ pc \in {"enriching", "resolved"} =>
          /\ Len(requests) = Len(places)
          /\ \A i \in 1..Len(places) :
                /\ RequestCount(i) = 1
                /\ \E k \in 1..Len(requests) :
                      /\ requests[k].place = i
                      /\ requests[k].body.name = places[i].name
    /\ pc \in {"idle", "searching", "rejected"} => requests = <<>>

\* C16 witness: a call with the limit 1 and two candidates returned after a
\* places query failed and the fetch of a lookup was rejected.
C16_Witness ==
    /\ pc = "resolved"
    /\ args.limit = 1
    /\ Len(places) = 2
    /\ \E i \in 1..Len(geo) : geo[i] = "rejected"
    /\ \E i \in 1..Len(places) : lookups[i].kind = "reject"

\* a feature with a name and a coordinate: any number is a valid latitude
\* or longitude here, 0 included
NamedAndLocated(props) ==
    /\ props.name.t = "string" /\ props.name # Str("")
    /\ props.lat.t = "number"
    /\ props.lon.t = "number"

\* C17: after aggregation every feature that has a name and a coordinate
\* (latitude 0 and longitude 0 included) has its identifier among the
\* candidates, and every candidate carries the fields of such a feature.
C17_DiscardsExactlyMalformed ==
    Aggregated =>
        /\ \A k \in 1..Len(Features) :
              NamedAndLocated(Features[k]) =>
                  \E i \in 1..Len(places) : places[i].place_id = Features[k].place_id
        /\ \A i \in 1..Len(places) :
              \E k \in 1..Len(Features) :
                  NamedAndLocated(Features[k]) /\ CarriesFields(places[i], Features[k])

\* C18: in route mode with a polyline the distance of every candidate is
\* its distance along the polyline; in meetup mode it is the straight-line
\* distance from originLocation, with or without a polyline.
C18_DistanceByMode ==
    Aggregated =>
        \A i \in 1..Len(places) :
            /\ (args.mode = "route" /\ args.route # Undef) =>
                   places[i].distance =
                       calculateRouteDistance(places[i].location, args.route.coordinates)
            /\ args.mode = "meetup" =>
                   places[i].distance =
                       calculateDistanceFromOrigin(places[i].location, args.originLocation)

\* C18 witness: a meetup search that was given a polyline, with a candidate
\* whose distance along the polyline differs from its distance from the
\* origin.
C18_Witness ==
    /\ Aggregated
    /\ args.mode = "meetup"
    /\ args.route # Undef
    /\ \E i \in 1..Len(places) :
          /\ places[i].distance # Str("NaN mi")
          /\ places[i].distance #
                 calculateRouteDistance(places[i].location, args.route.coordinates)

\* the last invocation was a POST, with the key configured, of a search
\* body (no locationId) that has no name
NamelessSearch ==
    /\ handled.request # Null
    /\ handled.hasKey
    /\ handled.request.httpMethod = "POST"
    /\ handled.request.body.t = "object"
    /\ handled.request.body.locationId = Undef
    /\ handled.request.body.name \in {Undef, Str("")}

\* C14: a lookup without a search name is answered with a rejection (an
\* error status), and no upstream request is made for it.
C14_MissingNameRejected ==
    NamelessSearch =>
        /\ handled.response.statusCode >= 400
        /\ handled.fetched = <<>>

\* C19: validateCategory gives back a recognised category as it is and the
\* default for every other text, so its value is always a recognised
\* category; and every query of a plan carries the validated category.
C19_CategoryValidated ==
    /\ \A c \in CategoryChoices :
          /\ c \in validCategories => validateCategory(c) = c
          /\ c \notin validCategories => validateCategory(c) = "catering.restaurant"
          /\ validateCategory(c) \in validCategories
    /\ Planned =>
          \A k \in 1..Len(kernel.out.queries) :
              kernel.out.queries[k].categories =
                  (IF kernel.category \in validCategories
                   THEN kernel.category ELSE "catering.restaurant")

\* C19 witness: a plan of 25 queries for the unknown category "bar".
C19_Witness ==
    /\ Planned
    /\ kernel.category = "bar"
    /\ Len(kernel.out.queries) = 25
    /\ \A k \in 1..25 : kernel.out.queries[k].categories = "catering.restaurant"

\* calculateRouteDistance has been applied to the vertices of a polyline
Measured == kernel.fn = "route" /\ kernel.out # Null

\* the distances of the vertices, first to last, never decrease
NonDecreasing(out) ==
    \A k \in 1..(Len(out) - 1) :
        /\ out[k].t = "number"
        /\ out[k + 1].t = "number"
        /\ out[k].v <= out[k + 1].v

\* p lies on the segment from a to b (integer coordinates)
OnSegment(p, a, b) ==
    LET cross == (b.lat.v - a.lat.v) * (p.lng.v - a.lng.v)
                 - (b.lng.v - a.lng.v) * (p.lat.v - a.lat.v)
        between(x, y, z) == (y <= x /\ x <= z) \/ (z <= x /\ x <= y)
    IN  /\ cross = 0
        /\ between(p.lat.v, a.lat.v, b.lat.v)
        /\ between(p.lng.v, a.lng.v, b.lng.v)

\* no vertex lies on a segment that comes before the one ending at it
NoVertexOnEarlierSegment(polyline) ==
    \A k \in 3..Len(polyline) : \A j \in 1..(k - 2) :
        ~OnSegment(polyline[k], polyline[j], polyline[j + 1])

\* the segments from a to b and from c to d cross at a point inside both
Crosses(a, b, c, d) ==
    LET side(p, q, r) == (q.lat.v - p.lat.v) * (r.lng.v - p.lng.v)
                         - (q.lng.v - p.lng.v) * (r.lat.v - p.lat.v)
    IN  /\ side(a, b, c) * side(a, b, d) < 0
        /\ side(c, d, a) * side(c, d, b) < 0

\* C20 as stated: for every polyline the along-route distances of its own
\* vertices, first to last, never decrease.
C20_MonotoneOnAnyPolyline ==
    Measured => NonDecreasing(kernel.out)

\* C20 amended: for every polyline none of whose vertices lies on a segment
\* that comes before the one ending at it (the polyline may cross itself
\* between vertices), the along-route distances of its vertices never
\* decrease, and the first is 0.
C20_MonotoneWithoutRevisit ==
    (Measured /\ NoVertexOnEarlierSegment(kernel.polyline)) =>
        /\ NonDecreasing(kernel.out)
        /\ kernel.out[1] = Num(0)

\* C20 witness: a polyline of four vertices whose third segment crosses its
\* first, with strictly growing distances.
C20_Witness ==
    /\ Measured
    /\ Len(kernel.polyline) = 4
    /\ NoVertexOnEarlierSegment(kernel.polyline)
    /\ Crosses(kernel.polyline[1], kernel.polyline[2],
               kernel.polyline[3], kernel.polyline[4])
    /\ \A k \in 1..3 : kernel.out[k].v < kernel.out[k + 1].v

\* the nearest-segment scan has been applied
Scanned == kernel.fn = "scan" /\ kernel.out # Null

\* the distance from the scanned point to segment j of the polyline
SegmentDistance(j) ==
    calculateHaversineDistance(
        kernel.point,
        projectPointOnSegment(kernel.point, kernel.polyline[j], kernel.polyline[j + 1]))

\* C21: the scan selects a segment whose distance is at most that of every
\* other segment, and among the segments at that distance the one with the
\* lowest index.
C21_LowestIndexWins ==
    Scanned =>
        /\ kernel.out.found
        /\ kernel.out.closestSegmentIndex \in 1..(Len(kernel.polyline) - 1)
        /\ kernel.out.minDistance = SegmentDistance(kernel.out.closestSegmentIndex).v
        /\ \A j \in 1..(Len(kernel.polyline) - 1) :
              /\ kernel.out.minDistance <= SegmentDistance(j).v
              /\ SegmentDistance(j).v = kernel.out.minDistance
                    => kernel.out.closestSegmentIndex <= j

\* C21 witness: the second and the third segment are both the closest, at a
\* distance above 0, and the second is selected.
C21_Witness ==
    /\ Scanned
    /\ Len(kernel.polyline) = 4
    /\ kernel.out.minDistance > 0
    /\ SegmentDistance(1).v > kernel.out.minDistance
    /\ SegmentDistance(2).v = kernel.out.minDistance
    /\ SegmentDistance(3).v = kernel.out.minDistance
    /\ kernel.out.closestSegmentIndex = 2

\* C22: every coverage point of a plan for a valid origin is a valid
\* coordinate: latitude within [-90, 90], longitude within [-180, 180].
C22_PointsValid ==
    (/\ Planned
     /\ -9000 <= kernel.location.lat.v /\ kernel.location.lat.v <= 9000
     /\ -18000 <= kernel.location.lng.v /\ kernel.location.lng.v <= 18000)
    => \A k \in 1..Len(kernel.out.searchPoints) :
           /\ -9000 <= kernel.out.searchPoints[k].lat.v
           /\ kernel.out.searchPoints[k].lat.v <= 9000
           /\ -18000 <= kernel.out.searchPoints[k].lng.v
           /\ kernel.out.searchPoints[k].lng.v <= 18000

\* the enriched places as the contents of the responses and of the lookup
\* replies determine them, candidate by candidate
EnrichedByContents ==
    LET ps == Aggregate(responses, args.originLocation, args.mode, args.route)
    IN  [i \in 1..Len(ps) |-> EnrichPlace(ps[i], lookups[i])]

\* C23: the candidate list is the aggregation of the responses taken in the
\* order of the coverage points, every enriched place is the enrichment of the
\* candidate at its index with that candidate's reply, and the returned list
\* is the ranking of these: nothing depends on the order of completion.
C23_OrderIndependent ==
    /\ Aggregated =>
          /\ places = Aggregate(responses, args.originLocation, args.mode, args.route)
          /\ Len(enrichedPlaces) = Len(places)
          /\ \A i \in 1..Len(places) :
                enrichedPlaces[i] # Null =>
                    /\ MakesLookup(places[i]) => lookups[i] # Pending
                    /\ enrichedPlaces[i] = EnrichedByContents[i]
    /\ pc = "resolved" =>
          sortedPlaces = RankAndTruncate(EnrichedByContents, args.limit)

\* C23 witness: both live coverage points were answered with a feature, two
\* candidates were made, and the lookup of the second has settled while the
\* lookup of the first is still in flight.
C23_Witness ==
    /\ pc = "enriching"
    /\ Len(geo) >= 2
    /\ geo[1] = "fulfilled" /\ responses[1] # <<>>
    /\ geo[2] = "fulfilled" /\ responses[2] # <<>>
    /\ Len(places) = 2
    /\ enrichedPlaces[1] = Null
    /\ lookups[2] # Pending
    /\ enrichedPlaces[2] = EnrichPlace(places[2], lookups[2])
    /\ enrichedPlaces[2] # EnrichPlace(places[1], lookups[2])

\* a call of the proxy's makeRequest has completed
Requested == kernel.fn = "makeRequest" /\ kernel.out # Null

\* C24: a call of the proxy's makeRequest makes at most MAX_RETRIES + 1 = 4
\* fetches; it returns exactly when its last fetch was answered OK with a
\* body that parses, and then returns that parsed body; otherwise it throws.
C24_BoundedRetries ==
    Requested =>
        LET last == kernel.outcomes[kernel.out.attempts]
            good == /\ last.kind = "response"
                    /\ ResponseOk(last)
                    /\ last.text.t = "object"
        IN  /\ kernel.out.attempts \in 1..(MAX_RETRIES + 1)
            /\ kernel.out.attempts <= 4
            /\ ~kernel.out.threw <=> good
            /\ ~kernel.out.threw => kernel.out.value = last.text
            /\ kernel.out.threw => kernel.out.value = Undef

\* C24 witness: a 429, a non-OK response, a network error and an unparsable
\* body in turn; the fourth fetch is the last and the call throws, although
\* a fifth fetch would have been answered with data.
C24_Witness ==
    /\ Requested
    /\ kernel.outcomes[1] = UpstreamResponse(429, Str("Too Many Requests"))
    /\ kernel.outcomes[2] = UpstreamResponse(500, Str("Internal Server Error"))
    /\ kernel.outcomes[3] = NetworkError
    /\ kernel.outcomes[4] = UpstreamResponse(200, Str("<html>"))
    /\ kernel.outcomes[5] = UpstreamResponse(200, UpstreamData)
    /\ kernel.out.attempts = 4
    /\ kernel.out.threw

\* the last invocation was a POST with the API key set and a body that
\* parses: the cache was consulted
Consulted ==
    /\ handled.request # Null
    /\ handled.hasKey
    /\ handled.request.httpMethod = "POST"
    /\ ~JSONParse(handled.request.body).threw

\* the invocation found an entry under its request body
Found == handled.request.body \in DOMAIN handled.cacheBefore

\* the age of that entry at the invocation
Age == handled.at - handled.cacheBefore[handled.request.body].timestamp

\* C25: a POST is answered with the data of the entry stored under its
\* request body, and with no upstream request, when that entry is younger
\* than CACHE_TTL; in every other case the answer is not from the cache, and
\* when the entry is CACHE_TTL old or older the request goes upstream.
C25_ServedWhileFresh ==
    Consulted =>
        /\ (Found /\ Age < CACHE_TTL) =>
              /\ handled.fetched = <<>>
              /\ handled.response =
                    [statusCode |-> 200,
                     data |-> handled.cacheBefore[handled.request.body].data]
        /\ ~(Found /\ Age < CACHE_TTL) =>
              handled.fetched # <<>> \/ handled.response.data \in {Null, Undef}
        /\ (Found /\ Age >= CACHE_TTL) => handled.fetched # <<>>

\* C25 witness: an entry one tick short of CACHE_TTL is served without an
\* upstream request.
C25_Witness ==
    /\ Consulted
    /\ Found
    /\ Age = CACHE_TTL - 1
    /\ handled.fetched = <<>>
    /\ handled.response.data = handled.cacheBefore[handled.request.body].data

\* the data of a full result: a search answer with details, or a details
\* answer with data
FullResult(data) ==
    /\ Truthy(data)
    /\ Truthy(Get(data, "details")) \/ Truthy(Get(data, "data"))

\* C26: every entry of the cache holds a full result, and an invocation
\* whose response is an error, a no-match or the best match without details
\* leaves the cache as it found it; an invocation that changes the cache
\* changes the entry of its own request body only, to the data it answers
\* with.
C26_OnlyFullResultsCached ==
    /\ \A key \in DOMAIN cache : FullResult(cache[key].data)
    /\ handled.request # Null =>
          /\ (\/ handled.response.statusCode # 200
              \/ ~FullResult(handled.response.data)) =>
                 cache = handled.cacheBefore
          /\ cache # handled.cacheBefore =>
                 /\ handled.fetched # <<>>
                 /\ DOMAIN cache = DOMAIN handled.cacheBefore \cup {handled.request.body}
                 /\ \A key \in DOMAIN cache :
                       cache[key] =
                           IF key = handled.request.body
                           THEN [data |-> handled.response.data, timestamp |-> handled.at]
                           ELSE handled.cacheBefore[key]

\* C26 witness: the entry of a search has expired, the search is made again,
\* the details request fails, the answer is the best match without details,
\* and the cache still holds the old entry and nothing else.
C26_Witness ==
    /\ Consulted
    /\ Found
    /\ Age >= CACHE_TTL
    /\ handled.fetched = <<"search", "details">>
    /\ handled.response.statusCode = 200
    /\ Truthy(handled.response.data)
    /\ ~FullResult(handled.response.data)
    /\ cache = handled.cacheBefore

\* the identity fields of two places are the same
SameIdentity(p, q) ==
    /\ p.place_id = q.place_id
    /\ p.name = q.name
    /\ p.lat = q.lat
    /\ p.lon = q.lon

\* C27: every enriched place has the place_id, name, lat and lon of the
\* candidate at its index, and every place the call returns is one of the
\* enriched places, so it has those of a candidate the aggregator made.
C27_IdentityUnchanged ==
    /\ \A i \in 1..Len(enrichedPlaces) :
          enrichedPlaces[i] # Null => SameIdentity(enrichedPlaces[i], places[i])
    /\ \A k \in 1..Len(sortedPlaces) :
          \E i \in 1..Len(places) :
              /\ sortedPlaces[k] = enrichedPlaces[i]
              /\ SameIdentity(sortedPlaces[k], places[i])

\* C27 witness: a returned place was merged with a ratings response that
\* carries another identifier and another latitude (they are in locationId
\* and location), next to a returned place whose lookup failed.
C27_Witness ==
    /\ pc = "resolved"
    /\ \E k \in 1..Len(sortedPlaces) :
          LET i == CandidateOf(sortedPlaces[k])
          IN  /\ Merges(lookups[i])
              /\ sortedPlaces[k].locationId = lookups[i].body.data.location_id
              /\ sortedPlaces[k].locationId # places[i].place_id
              /\ sortedPlaces[k].location.lat # places[i].lat
              /\ SameIdentity(sortedPlaces[k], places[i])
    /\ \E k \in 1..Len(sortedPlaces) :
          lookups[CandidateOf(sortedPlaces[k])].kind = "httpError"

=============================================================================
